---------------------------- MODULE Spec2Model ----------------------------
(***************************************************************************)
(* A model of the ISHNE Holter file library.  Three pieces of source are   *)
(* modelled side by side, each as the library one program run uses:        *)
(*   lib = "legacy" : src/ISHNEHolterLib.py           (class Holter)       *)
(*   lib = "header" : src/ishneholterlib/header.py    (class Header)       *)
(*   lib = "holter" : src/ishneholterlib/holter.py    (Header and Holter)  *)
(* The file at self.filename is a sequence of bytes (0..255); every read   *)
(* decodes bytes at the offsets the source uses.  The interpreter is       *)
(* Python 3 on a little-endian machine (src/ISHNEHolterLib.py:1,           *)
(* sys.byteorder), with assert statements enabled.                         *)
(***************************************************************************)
EXTENDS Integers, Sequences, FiniteSets, TLC

VARIABLES
  lib,     \* which of the three sources this run uses
  disk,    \* the file at self.filename: [exists, bytes, trip]
  obj,     \* the Python object the run holds (Header or Holter)
  op,      \* the last operation called and its arguments
  err,     \* the exception the last operation raised, "none" if it returned
  ret,     \* what the last operation returned or printed
  prev,    \* the file at self.filename before the last operation
  orig     \* the file at self.filename when the run started

vars == <<lib, disk, obj, op, err, ret, prev, orig>>

---------------------------------------------------------------------------
(* Bounds of the model. *)

\* samples per lead in the files and lead lists the model starts from
MaxPerLead == 2
\* bytes in the variable-length block of the files the model starts from
MaxVarBlock == 2

---------------------------------------------------------------------------
(* Program constants. *)

\* size of the magic + checksum + fixed header
HeaderSize == 522
\* first byte after magic and checksum
PreHeaderSize == 10
\* entries of the lead_spec / lead_quality / ampl_res arrays
MaxLeads == 12

\* b'ISHNE1.0'
MagicBytes == <<73, 83, 72, 78, 69, 49, 46, 48>>

---------------------------------------------------------------------------
(* Bytes and integers. *)

Byte == 0..255

Zeros(n) == [i \in 1..n |-> 0]

\* the n little-endian bytes of v in two's complement (\div rounds down,
\* % is never negative)
RECURSIVE LE(_, _)
LE(v, n) == IF n = 0 THEN <<>> ELSE <<v % 256>> \o LE(v \div 256, n - 1)

S16(v) == LE(v, 2)
S32(v) == LE(v, 4)

RECURSIVE FromLE(_)
FromLE(bs) == IF bs = <<>> THEN 0 ELSE bs[1] + 256 * FromLE(Tail(bs))

Signed(u, bits) == IF u >= 2 ^ (bits - 1) THEN u - 2 ^ bits ELSE u

\* bytes[ptr : ptr+n] of a Python bytes object (ptr counted from 0)
Slice(bs, ptr, n) ==
  IF ptr >= Len(bs) \/ n <= 0 THEN <<>>
  ELSE SubSeq(bs, ptr + 1, IF ptr + n > Len(bs) THEN Len(bs) ELSE ptr + n)

---------------------------------------------------------------------------
(* CRC16-CCITT, polynomial 0x1021, initial register 0xFFFF                 *)
(* (PyCRC's CRCCCITT(version='FFFF').calculate).                           *)

Flip(c, k) == IF (c \div k) % 2 = 1 THEN c - k ELSE c + k

\* one bit: shift left, and xor 0x1021 (bits 0, 5, 12) if a 1 fell out
Shift(c) ==
  LET d == (c * 2) % 65536
  IN IF c >= 32768 THEN Flip(Flip(d + 1, 32), 4096) ELSE d

RECURSIVE ShiftN(_, _)
ShiftN(c, n) == IF c < 0 \/ n = 0 THEN c ELSE ShiftN(Shift(c), n - 1)

RECURSIVE XorBits(_, _, _)
XorBits(a, b, n) ==
  IF n = 0 THEN 0
  ELSE ((a + b) % 2) + 2 * XorBits(a \div 2, b \div 2, n - 1)

\* one byte: xor it into the high byte, then eight shifts
CrcByte(c, b) ==
  ShiftN(IF b = 0 THEN c ELSE XorBits(c \div 256, b, 8) * 256 + (c % 256), 8)

RECURSIVE CrcRange(_, _, _, _)
CrcRange(s, lo, hi, c) ==
  IF c < 0 \/ lo > hi THEN c
  ELSE IF lo = hi THEN CrcByte(c, s[lo])
  ELSE LET mid == (lo + hi) \div 2
           left == CrcRange(s, lo, mid, c)
       IN CrcRange(s, mid + 1, hi, left)

crc16(s) == CrcRange(s, 1, Len(s), 65535)

---------------------------------------------------------------------------
(* Reading values from the file (helpers.py; the same functions are        *)
(* repeated in ISHNEHolterLib.py and holter.py).  np.fromfile returns an   *)
(* empty array when fewer bytes remain than one item needs, and val[0]     *)
(* then raises IndexError: CanRead says the item is there.                 *)

CanRead(bs, ptr, n) == ptr >= 0 /\ ptr + n <= Len(bs)

get_short_int(bs, ptr) == Signed(FromLE(Slice(bs, ptr, 2)), 16)

\* the top byte carries the sign (the model's integers are 32 bits wide)
get_long_int(bs, ptr) ==
  FromLE(Slice(bs, ptr, 3)) + 16777216 * Signed(FromLE(Slice(bs, ptr + 3, 1)), 8)

\* get_val(filename, ptr, np.uint16)
get_uint16(bs, ptr) == FromLE(Slice(bs, ptr, 2))

\* s without its trailing NUL bytes
StripNul(s) ==
  LET keep == {i \in 1..Len(s) : s[i] # 0}
  IN IF keep = {} THEN <<>>
     ELSE SubSeq(s, 1, CHOOSE i \in keep : \A j \in keep : j <= i)

\* get_val(filename, ptr, 'a<n>'): a numpy bytes scalar drops trailing NULs
get_bytes(bs, ptr, n) == StripNul(Slice(bs, ptr, n))

\* s.split(b'\x00')[0]
SplitNul(s) ==
  LET nul == {i \in 1..Len(s) : s[i] = 0}
  IN IF nul = {} THEN s
     ELSE SubSeq(s, 1, (CHOOSE i \in nul : \A j \in nul : i <= j) - 1)

LeapYear(y) == (y % 4 = 0 /\ y % 100 # 0) \/ y % 400 = 0

DaysIn(y, m) ==
  IF m = 2 THEN (IF LeapYear(y) THEN 29 ELSE 28)
  ELSE IF m \in {4, 6, 9, 11} THEN 30 ELSE 31

\* (a leap year every fourth year)
ValidDate_EveryFourth(y, m, d) ==
  /\ y >= 1 /\ y <= 9999 /\ m >= 1 /\ m <= 12 /\ d >= 1
  /\ d <= (IF m = 2 /\ y % 4 = 0 THEN 29 ELSE DaysIn(y, m))

\* datetime.date(y, m, d) does not raise ValueError
ValidDate(y, m, d) ==
  y >= 1 /\ y <= 9999 /\ m >= 1 /\ m <= 12 /\ d >= 1 /\ d <= DaysIn(y, m)

\* datetime.time(h, m, s) does not raise ValueError
ValidTime(h, m, s) ==
  h >= 0 /\ h <= 23 /\ m >= 0 /\ m <= 59 /\ s >= 0 /\ s <= 59

\* Python's None, for a date, a time or a byte string
None == <<>>

\* A date is kept as <<day, month, year>>, a time as <<hour, minute, second>>.
get_datetime(bs, offset, time) ==
  LET a == get_short_int(bs, offset)
      b == get_short_int(bs, offset + 2)
      c == get_short_int(bs, offset + 4)
  IN IF time THEN (IF ValidTime(a, b, c) THEN <<a, b, c>> ELSE None)
     ELSE (IF ValidDate(c, b, a) THEN <<a, b, c>> ELSE None)

---------------------------------------------------------------------------
(* The header fields, read at their offsets.  split says whether a string  *)
(* is cut at its first NUL (header.py, holter.py) or only loses its        *)
(* trailing NULs (ISHNEHolterLib.py).                                      *)

Str(bs, ptr, n, split) ==
  IF split THEN SplitNul(get_bytes(bs, ptr, n)) ELSE get_bytes(bs, ptr, n)

ReadFixed(bs, split) ==
  [ magic_number     |-> get_bytes(bs, 0, 8),
    checksum         |-> get_uint16(bs, 8),
    var_block_size   |-> get_long_int(bs, 10),
    ecg_size         |-> get_long_int(bs, 14),
    var_block_offset |-> get_long_int(bs, 18),
    ecg_block_offset |-> get_long_int(bs, 22),
    file_version     |-> get_short_int(bs, 26),
    first_name       |-> Str(bs, 28, 40, split),
    last_name        |-> Str(bs, 68, 40, split),
    id               |-> Str(bs, 108, 20, split),
    sex              |-> get_short_int(bs, 128),
    race             |-> get_short_int(bs, 130),
    birth_date       |-> get_datetime(bs, 132, FALSE),
    record_date      |-> get_datetime(bs, 138, FALSE),
    file_date        |-> get_datetime(bs, 144, FALSE),
    start_time       |-> get_datetime(bs, 150, TRUE),
    nleads           |-> get_short_int(bs, 156),
    lead_spec        |-> [i \in 1..MaxLeads |-> get_short_int(bs, 158 + (i - 1) * 2)],
    lead_quality     |-> [i \in 1..MaxLeads |-> get_short_int(bs, 182 + (i - 1) * 2)],
    ampl_res         |-> [i \in 1..MaxLeads |-> get_short_int(bs, 206 + (i - 1) * 2)],
    pm               |-> get_short_int(bs, 230),
    recorder_type    |-> Str(bs, 232, 40, split),
    sr               |-> get_short_int(bs, 272),
    proprietary      |-> Str(bs, 274, 80, split),
    copyright        |-> Str(bs, 354, 80, split),
    reserved         |-> Str(bs, 434, 88, split),
    var_block        |-> None ]

\* the fields of an object whose constructor has not run or has raised
NoHeader == ReadFixed(<<>>, FALSE)

\* (the size check off by one)
TooSmall_OffByOne(size) == size <= HeaderSize

\* os.path.getsize(filename) < 522
TooSmall(size) == size < HeaderSize

\* the variable-length block, read after the fixed header
ReadVarBlock(bs, size, split) == Str(bs, HeaderSize, size, split)

---------------------------------------------------------------------------
(* The files a run may find at self.filename: well-formed files laid out   *)
(* as the format's table of offsets says, and damaged copies of them.      *)

Pad(str, n) == SubSeq(str, 1, IF Len(str) < n THEN Len(str) ELSE n) \o Zeros(n - Len(str))

DateBytes(d) == IF d = None THEN Zeros(6) ELSE S16(d[1]) \o S16(d[2]) \o S16(d[3])

\* ss[lo] \o ... \o ss[hi]
RECURSIVE ConcatRange(_, _, _)
ConcatRange(ss, lo, hi) ==
  IF lo > hi THEN <<>>
  ELSE IF lo = hi THEN ss[lo]
  ELSE LET mid == (lo + hi) \div 2
       IN ConcatRange(ss, lo, mid) \o ConcatRange(ss, mid + 1, hi)

Concat(ss) == ConcatRange(ss, 1, Len(ss))

\* raw sample k (from 0) of lead i (from 0): positive and negative values
FixtureSample(i, k) == IF (i + k) % 2 = 0 THEN 100 * (i + 1) + k ELSE 0 - (100 * (i + 1) + k)

\* the interleaved block: raw sample number k * nleads + i is sample k of lead i
FixtureData(n, p) ==
  Concat([j \in 1..(n * p) |-> S16(FixtureSample((j - 1) % n, (j - 1) \div n))])

\* the identity fields of the two patients of the fixture files
Patient(plain) ==
  IF plain
  THEN [ file_version |-> 1, first_name |-> <<65, 66>>, last_name |-> <<67>>,
         id |-> <<55>>, sex |-> 1, race |-> 3,
         birth_date |-> <<2, 3, 1970>>, record_date |-> <<29, 2, 2016>>,
         file_date |-> <<1, 1, 2017>>, start_time |-> <<8, 30, 0>>,
         pm |-> 0, recorder_type |-> <<100>>, sr |-> 200,
         proprietary |-> <<112>>, copyright |-> <<99>>, reserved |-> <<>> ]
  ELSE [ file_version |-> -9, first_name |-> [i \in 1..40 |-> 65], last_name |-> <<65, 0, 66>>,
         id |-> <<>>, sex |-> 0, race |-> 0,
         birth_date |-> None, record_date |-> None,
         file_date |-> None, start_time |-> <<0, 0, 0>>,
         pm |-> -9, recorder_type |-> <<>>, sr |-> 1000,
         proprietary |-> <<>>, copyright |-> <<>>, reserved |-> [i \in 1..88 |-> 90] ]

\* lead i (from 1) of n: its position code, quality code and resolution in nV
FixtureSpec(i, n) == IF i <= n THEN 4 + i ELSE -9
FixtureQual(i, n) == IF i <= n THEN 1 ELSE -9
FixtureRes(i, n) == IF i <= n THEN 2500 ELSE -9

\* bytes 10 .. 522 + var_block_size of a file: the fixed header and the variable block
FixtureHeader(c, ecg_size, var_off, ecg_off) ==
  LET q == Patient(c.plain)
  IN S32(Len(c.vb)) \o S32(ecg_size) \o S32(var_off) \o S32(ecg_off)
     \o S16(q.file_version)
     \o Pad(q.first_name, 40) \o Pad(q.last_name, 40) \o Pad(q.id, 20)
     \o S16(q.sex) \o S16(q.race)
     \o DateBytes(q.birth_date) \o DateBytes(q.record_date)
     \o DateBytes(q.file_date) \o DateBytes(q.start_time)
     \o S16(c.n)
     \o Concat([i \in 1..MaxLeads |-> S16(FixtureSpec(i, c.n))])
     \o Concat([i \in 1..MaxLeads |-> S16(FixtureQual(i, c.n))])
     \o Concat([i \in 1..MaxLeads |-> S16(FixtureRes(i, c.n))])
     \o S16(q.pm) \o Pad(q.recorder_type, 40) \o S16(q.sr)
     \o Pad(q.proprietary, 80) \o Pad(q.copyright, 80) \o Pad(q.reserved, 88)
     \o c.vb

\* a file: magic, checksum of bytes 10 .. ck_end, header, samples
FixtureBytes(c, magic, ecg_size, var_off, ecg_off, ck_end, ck_xor) ==
  LET hdr  == FixtureHeader(c, ecg_size, var_off, ecg_off)
      body == hdr \o FixtureData(c.n, c.p)
      ck   == crc16(Slice(body, 0, ck_end - PreHeaderSize))
  IN magic \o LE(IF ck_xor THEN Flip(ck, 1) ELSE ck, 2) \o body

\* b'ISHNE1.1'
WrongMagic == <<73, 83, 72, 78, 69, 49, 46, 49>>

Faults ==
  { "none", "magic", "checksum", "var_offset", "ecg_offset", "total",
    "size", "short", "no_data", "trailing", "lead_code" }

\* the damage holter.py is started on: it checks nothing but the size
LoadFaults == { "none", "magic", "checksum", "var_offset", "short", "no_data", "lead_code" }

\* a position code that lead_specs has no name for
UnknownLeadCode == 20

\* file bs, its first lead given position code `code`, the checksum put right
WithLeadCode(bs, code, ck_end) ==
  LET body == Slice(bs, PreHeaderSize, 158 - PreHeaderSize) \o S16(code)
              \o Slice(bs, 160, Len(bs) - 160)
  IN Slice(bs, 0, 8) \o LE(crc16(Slice(body, 0, ck_end - PreHeaderSize)), 2) \o body

\* the file of configuration c with one thing wrong (or nothing, "none")
Fixture(c, fault) ==
  LET end  == HeaderSize + Len(c.vb)
      good == FixtureBytes(c, MagicBytes, c.p, HeaderSize, end, end, FALSE)
  IN CASE fault = "none"       -> good
       [] fault = "magic"      -> FixtureBytes(c, WrongMagic, c.p, HeaderSize, end, end, FALSE)
       [] fault = "checksum"   -> FixtureBytes(c, MagicBytes, c.p, HeaderSize, end, end, TRUE)
       [] fault = "var_offset" -> FixtureBytes(c, MagicBytes, c.p, HeaderSize - 10, end, end, FALSE)
       [] fault = "ecg_offset" -> FixtureBytes(c, MagicBytes, c.p, HeaderSize, end + 2, end + 2, FALSE)
       [] fault = "total"      -> FixtureBytes(c, MagicBytes, c.n * c.p, HeaderSize, end, end, FALSE)
       [] fault = "size"       -> FixtureBytes(c, MagicBytes, c.n * c.p + 1, HeaderSize, end, end, FALSE)
       [] fault = "short"      -> Slice(good, 0, HeaderSize - 1)
       [] fault = "no_data"    -> Slice(good, 0, HeaderSize)
       [] fault = "trailing"   -> good \o S16(7)
       [] fault = "lead_code"  -> WithLeadCode(good, UnknownLeadCode, end)

\* a variable-length block of n bytes
FixtureVarBlock(n) == [i \in 1..n |-> 64 + i]

Config(n, p, v, plain) == [n |-> n, p |-> p, vb |-> FixtureVarBlock(v), plain |-> plain]

\* one lead, two leads and a variable block, all twelve leads, the second patient
Configs ==
  { Config(1, 1, 0, TRUE), Config(2, MaxPerLead, MaxVarBlock, TRUE),
    Config(MaxLeads, 1, 0, TRUE), Config(2, 1, MaxVarBlock, FALSE) }

---------------------------------------------------------------------------
(* The object of a run, and the file.                                      *)
(*   data : self.data of ISHNEHolterLib.Holter: None, the flat array of    *)
(*          raw samples, or one row of amplitudes per lead.  An amplitude  *)
(*          is kept in nV (raw * resolution), i.e. the value in mV * 1e6.  *)
(*   lead : self.lead of holter.py's Holter, when the attribute is set.    *)
(*   attr : the attributes a caller or autofill_header has set on the      *)
(*          Holter object of holter.py.                                    *)
(*   origin : where the fields of the header come from: "file" (byte       *)
(*          strings read by load_header), "default" (the defaults of       *)
(*          Header()) or "bytes" (keyword arguments, strings given as      *)
(*          bytes).                                                        *)
(*   trip : 0 for the file the run started from, 1 for a file written by   *)
(*          an object that holds the data of that file, 2 for any other;   *)
(*          an object carries the trip of the file it was loaded from.     *)

NoData == [kind |-> "None", v |-> <<>>]

NoLead == [set |-> FALSE, v |-> <<>>]

NoAttr == [var_block_set |-> FALSE, var_block |-> None, autofilled |-> "no",
           var_block_size |-> 0, ecg_size |-> 0, nleads |-> 0,
           var_block_offset |-> 0, ecg_block_offset |-> 0, file_date |-> None]

NoObject ==
  [made |-> FALSE, h |-> NoHeader, origin |-> "file", data |-> NoData, lead |-> NoLead,
   attr |-> NoAttr, trip |-> 2]

NoFile == [exists |-> FALSE, bytes |-> <<>>, trip |-> 2]

File(bs, trip) == [exists |-> TRUE, bytes |-> bs, trip |-> trip]

Result(e, o) == [err |-> e, obj |-> o]

\* the method called, its boolean argument, the leads passed to it, and
\* for a function of helpers.py its other arguments
Call(name, arg) == [name |-> name, arg |-> arg, leads |-> <<>>, input |-> <<>>]

\* what a call gave back: its boolean, what it printed, the bytes it
\* returned, and any other value (val)
NoReturn == [v |-> FALSE, out |-> "", b |-> <<>>, val |-> <<>>]

\* datetime.datetime.now().date()
Today == <<5, 11, 2026>>

\* A Lead of ecgplotter, as holter.py uses it: its samples (.data), its
\* sample rate and its start time.
Lead(data, sr, start) == [data |-> data, sr |-> sr, start |-> start]

Ramp(n) == [k \in 1..n |-> k]

\* the lead lists a caller may pass: consistent ones, leads that differ in
\* length, in sample rate or in start time, and a sample outside int16
LeadLists ==
  { <<>>,
    <<Lead(Ramp(MaxPerLead), 200, 0)>>,
    <<Lead(Ramp(MaxPerLead), 200, 0), Lead(Ramp(MaxPerLead), 200, 0)>>,
    <<Lead(Ramp(MaxPerLead), 200, 0), Lead(Ramp(MaxPerLead - 1), 200, 0)>>,
    <<Lead(Ramp(MaxPerLead), 200, 0), Lead(Ramp(MaxPerLead), 250, 0)>>,
    <<Lead(Ramp(MaxPerLead), 200, 0), Lead(Ramp(MaxPerLead), 200, 1)>>,
    <<Lead([k \in 1..MaxPerLead |-> 40000], 200, 0)>> }

---------------------------------------------------------------------------
(* ISHNEHolterLib.py: class Holter.                                        *)

\* (the samples read along with the header)
legacy_load_header_Eager(d) ==
  IF ~d.exists THEN Result("FileNotFoundError", NoObject)
  ELSE IF TooSmall(Len(d.bytes)) THEN Result("AssertionError", NoObject)
  ELSE Result("none",
         [NoObject EXCEPT !.made = TRUE, !.trip = d.trip, !.h = ReadFixed(d.bytes, FALSE),
            !.data = [kind |-> "raw",
                      v |-> [j \in 1..((Len(d.bytes) - HeaderSize) \div 2) |->
                               get_short_int(d.bytes, HeaderSize + 2 * (j - 1))]]])

\* Holter.load_header
legacy_load_header(d) ==
  IF ~d.exists THEN Result("FileNotFoundError", NoObject)
  ELSE IF TooSmall(Len(d.bytes)) THEN Result("AssertionError", NoObject)
  ELSE LET f == ReadFixed(d.bytes, FALSE)
       IN IF f.var_block_size > 0
          THEN IF CanRead(d.bytes, HeaderSize, f.var_block_size)
               THEN Result("none", [NoObject EXCEPT !.made = TRUE, !.trip = d.trip,
                                      !.h = [f EXCEPT !.var_block =
                                               ReadVarBlock(d.bytes, f.var_block_size, FALSE)]])
               ELSE Result("IndexError", NoObject)
          ELSE Result("none", [NoObject EXCEPT !.made = TRUE, !.trip = d.trip, !.h = f])

\* np.fromfile(f, dtype=np.uint8, count=n) after f.seek(ptr): a negative
\* count reads to the end of the file
ReadCount(bs, ptr, n) == IF n < 0 THEN Slice(bs, ptr, Len(bs)) ELSE Slice(bs, ptr, n)

\* Holter.compute_checksum: over the file on disk, from byte 10 to ecg_block_offset
compute_checksum(h, bs) ==
  crc16(ReadCount(bs, PreHeaderSize, h.ecg_block_offset - PreHeaderSize))

MagicOk(h) == h.magic_number = MagicBytes

VarOffsetOk(h) == h.var_block_offset = HeaderSize

\* the two sizes is_valid accepts: ecg_size counted over all leads, or per lead
ExpectedTotal(var_block_size, ecg_size) == HeaderSize + var_block_size + 2 * ecg_size

ExpectedPerLead(var_block_size, ecg_size, nleads) ==
  ExpectedTotal(var_block_size, ecg_size) + 2 * ecg_size * (nleads - 1)

\* (no second try with ecg_size counted per lead)
SizeOk_TotalOnly(h, filesize) ==
  filesize = ExpectedTotal(h.var_block_size, h.ecg_size)

SizeOk(h, filesize) ==
  IF filesize # ExpectedTotal(h.var_block_size, h.ecg_size)
  THEN filesize = ExpectedPerLead(h.var_block_size, h.ecg_size, h.nleads)
  ELSE TRUE

ChecksumOk(h, bs) == h.checksum = compute_checksum(h, bs)

\* Holter.is_valid
is_valid(h, bs, verify_checksum) ==
  /\ MagicOk(h)
  /\ VarOffsetOk(h)
  /\ SizeOk(h, Len(bs))
  /\ (verify_checksum => ChecksumOk(h, bs))

\* Holter.__init__: load the header, print a warning if is_valid() is false
LegacyInit ==
  /\ lib = "legacy"
  /\ LET r == legacy_load_header(disk)
     IN /\ obj' = r.obj
        /\ err' = r.err
        /\ ret' = [NoReturn EXCEPT
                   !.out = IF r.err = "none" /\ ~is_valid(r.obj.h, disk.bytes, TRUE)
                           THEN "Warning: file appears to be invalid or corrupt."
                           ELSE ""]
  /\ op' = Call("load", FALSE)
  /\ prev' = disk
  /\ UNCHANGED <<lib, disk, orig>>

\* Holter.is_valid(verify_checksum); os.path.getsize raises if the file is gone
\* lead_specs (the dict of get_leadspec, and of holter.py and constants.py):
\* the codes the table has a name for
lead_specs ==
  [c \in {-9} \cup (0..19) |->
     CASE c = -9 -> "absent" [] c = 0 -> "unknown" [] c = 1 -> "generic"
       [] c = 2 -> "X"   [] c = 3 -> "Y"    [] c = 4 -> "Z"
       [] c = 5 -> "I"   [] c = 6 -> "II"   [] c = 7 -> "III"
       [] c = 8 -> "aVR" [] c = 9 -> "aVL"  [] c = 10 -> "aVF"
       [] c = 11 -> "V1" [] c = 12 -> "V2"  [] c = 13 -> "V3"
       [] c = 14 -> "V4" [] c = 15 -> "V5"  [] c = 16 -> "V6"
       [] c = 17 -> "ES" [] c = 18 -> "AS"  [] c = 19 -> "AI"]

\* Holter.get_leadspec(lead), lead counted from 0: the name of the code
\* at self.lead_spec[lead]; a code the dict does not have is a KeyError
get_leadspec(h, lead) ==
  IF h.lead_spec[lead + 1] \in DOMAIN lead_specs
  THEN [err |-> "none", name |-> lead_specs[h.lead_spec[lead + 1]]]
  ELSE [err |-> "KeyError", name |-> ""]

LegacyGetLeadspec ==
  /\ lib = "legacy"
  /\ obj.made
  /\ \E lead \in {0, 1, MaxLeads - 1} :
       LET r == get_leadspec(obj.h, lead)
       IN /\ op' = [Call("get_leadspec", FALSE) EXCEPT !.input = lead]
          /\ err' = r.err
          /\ ret' = [NoReturn EXCEPT !.val = r.name]
  /\ prev' = disk
  /\ UNCHANGED <<lib, disk, obj, orig>>

LegacyIsValid ==
  /\ lib = "legacy"
  /\ obj.made
  /\ \E verify_checksum \in BOOLEAN :
       LET raises == MagicOk(obj.h) /\ VarOffsetOk(obj.h) /\ ~disk.exists
       IN /\ op' = Call("is_valid", verify_checksum)
          /\ err' = IF raises THEN "FileNotFoundError" ELSE "none"
          /\ ret' = [NoReturn EXCEPT
                     !.v = ~raises /\ is_valid(obj.h, disk.bytes, verify_checksum)]
  /\ prev' = disk
  /\ UNCHANGED <<lib, disk, obj, orig>>

\* np.fromfile(f, dtype=np.int16) after f.seek(ptr): every whole sample to the end
RawSamples(bs, ptr) ==
  IF ptr >= Len(bs) THEN <<>>
  ELSE [j \in 1..((Len(bs) - ptr) \div 2) |-> get_short_int(bs, ptr + 2 * (j - 1))]

\* np.reshape(raw, (nleads, per_lead), order='F'): row i (from 1), sample k (from 1)
Rows(raw, nleads, per_lead) ==
  [i \in 1..nleads |-> [k \in 1..per_lead |-> raw[(k - 1) * nleads + i]]]

\* (the raw value kept as it is)
Amplitude_Unscaled(raw, res) == raw

\* line 123, one sample: raw / (1e6/res) mV, which is raw * res nV
Amplitude(raw, res) == raw * res

\* data[i] /= 1e6/ampl_res[i], kept in nV
ToAmplitude(rows, ampl_res) ==
  [i \in 1..Len(rows) |-> [k \in 1..Len(rows[i]) |-> Amplitude(rows[i][k], ampl_res[i])]]

\* Holter.load_data.  Line 118 divides with "/", which gives a float in
\* Python 3: numpy from 1.12 on refuses a float as an index (TypeError);
\* an older numpy accepts it, and then the reshape succeeds only if nleads
\* divides the number of samples.  float_index is which numpy is installed.
legacy_load_data(o, d, float_index) ==
  IF ~d.exists THEN Result("FileNotFoundError", o)
  ELSE IF o.h.var_block_offset < 0 THEN Result("OSError", o)
  ELSE LET raw    == RawSamples(d.bytes, o.h.var_block_offset)
           nleads == o.h.nleads
           asRaw  == [o EXCEPT !.data = [kind |-> "raw", v |-> raw]]
       IN IF nleads = 0 THEN Result("ZeroDivisionError", asRaw)
          ELSE IF ~float_index THEN Result("TypeError", asRaw)
          ELSE IF nleads < 0 \/ Len(raw) % nleads # 0 THEN Result("ValueError", asRaw)
          ELSE IF nleads > MaxLeads THEN Result("IndexError", asRaw)
          ELSE IF \E i \in 1..nleads : o.h.ampl_res[i] = 0
               THEN Result("ZeroDivisionError", asRaw)
          ELSE Result("none",
                 [o EXCEPT !.data =
                    [kind |-> "matrix",
                     v |-> ToAmplitude(Rows(raw, nleads, Len(raw) \div nleads),
                                       o.h.ampl_res)]])

LegacyLoadData ==
  /\ lib = "legacy"
  /\ obj.made
  /\ \E float_index \in BOOLEAN :
       LET r == legacy_load_data(obj, disk, float_index)
       IN /\ obj' = r.obj
          /\ err' = r.err
          /\ op' = Call("load_data", float_index)
  /\ ret' = NoReturn
  /\ prev' = disk
  /\ UNCHANGED <<lib, disk, orig>>

\* One f.write(...) of write_file: its bytes, or the exception to_bytes raises.
Bytes(b) == [ok |-> TRUE, b |-> b]

\* (v).to_bytes(n, sys.byteorder): unsigned, OverflowError outside 0 .. 256^n - 1
\* (a value of the model is below 2^31, so it always fits 4 bytes or more)
Unsigned(v, n) == [ok |-> v >= 0 /\ (n >= 4 \/ v < 256 ^ n), b |-> LE(v, n)]

\* (v).to_bytes(n, sys.byteorder, signed=True)
SignedInt(v, n) ==
  [ok |-> n >= 4 \/ (v >= 0 - (256 ^ n) \div 2 /\ v < (256 ^ n) \div 2), b |-> LE(v, n)]

\* the writes of a date or time field: three values, or six zero bytes for None
DateWrites(d) ==
  IF d = None THEN <<Unsigned(0, 6)>>
  ELSE <<Unsigned(d[1], 2), Unsigned(d[2], 2), Unsigned(d[3], 2)>>

\* what reaches the file: the writes before the first one that raises
Written(ws) ==
  LET bad   == {i \in 1..Len(ws) : ~ws[i].ok}
      first == IF bad = {} THEN Len(ws) + 1 ELSE CHOOSE i \in bad : \A j \in bad : i <= j
  IN [ok |-> bad = {}, b |-> Concat([i \in 1..(first - 1) |-> ws[i].b])]

\* Holter.write_file, lines 211-219: len(self.data[0]), 0 on TypeError
legacy_ecg_size(data) ==
  IF data.kind = "matrix" THEN Len(data.v[1]) ELSE 0

\* Holter.write_file, lines 221-270: the writes, in order
legacy_writes(h, data) ==
  LET var_block_size == Len(h.var_block)
  IN <<Bytes(MagicBytes), Bytes(<<0, 0>>),
       Unsigned(var_block_size, 4), Unsigned(legacy_ecg_size(data), 4),
       Unsigned(HeaderSize, 4), Unsigned(HeaderSize + var_block_size, 4),
       Unsigned(h.file_version, 2),
       Bytes(Pad(h.first_name, 40)), Bytes(Pad(h.last_name, 40)), Bytes(Pad(h.id, 20)),
       Unsigned(h.sex, 2), Unsigned(h.race, 2)>>
     \o DateWrites(h.birth_date) \o DateWrites(h.record_date)
     \o DateWrites(Today) \o DateWrites(h.start_time)
     \o <<Unsigned(h.nleads, 2)>>
     \o [i \in 1..MaxLeads |-> Unsigned(h.lead_spec[i], 2)]
     \o [i \in 1..MaxLeads |-> Unsigned(h.lead_quality[i], 2)]
     \o [i \in 1..MaxLeads |-> Unsigned(h.ampl_res[i], 2)]
     \o <<Unsigned(h.pm, 2), Bytes(Pad(h.recorder_type, 40)), Unsigned(h.sr, 2),
          Bytes(Pad(h.proprietary, 80)), Bytes(Pad(h.copyright, 80)),
          Bytes(Pad(h.reserved, 88))>>
     \o (IF var_block_size > 0 THEN <<Bytes(h.var_block)>> ELSE <<>>)

\* (the file removed before overwrite is looked at)
remove_existing_RemoveFirst(d, overwrite) ==
  IF d.exists
  THEN [err |-> IF overwrite THEN "none" ELSE "AssertionError", disk |-> NoFile]
  ELSE [err |-> "none", disk |-> d]

\* lines 205-209 of ISHNEHolterLib.py, 434-438 of holter.py: refuse an
\* existing file unless overwrite, else remove it
remove_existing(d, overwrite) ==
  IF d.exists
  THEN IF overwrite THEN [err |-> "none", disk |-> NoFile]
       ELSE [err |-> "AssertionError", disk |-> d]
  ELSE [err |-> "none", disk |-> d]

\* the trip of a file written by object o
WrittenTrip(o, has_data) == IF o.trip = 0 /\ has_data THEN 1 ELSE 2

\* Holter.write_file
legacy_write_file(o, d, overwrite) ==
  LET rm == remove_existing(d, overwrite)
  IN IF rm.err # "none" THEN rm
     ELSE IF o.data.kind = "raw" /\ o.data.v = <<>>
          THEN [err |-> "IndexError", disk |-> rm.disk]
     ELSE LET w == Written(legacy_writes(o.h, o.data))
          IN [err  |-> IF w.ok THEN "none" ELSE "OverflowError",
              disk |-> File(w.b, WrittenTrip(o, o.data.kind = "matrix"))]

LegacyWriteFile ==
  /\ lib = "legacy"
  /\ obj.made
  /\ \E overwrite \in BOOLEAN :
       LET r == legacy_write_file(obj, disk, overwrite)
       IN /\ disk' = r.disk
          /\ err' = r.err
          /\ op' = Call("write_file", overwrite)
  /\ ret' = NoReturn
  /\ prev' = disk
  /\ UNCHANGED <<lib, obj, orig>>

---------------------------------------------------------------------------
(* ishneholterlib/header.py: class Header.                                 *)

\* (only the first of the two offsets compared)
OffsetsOk_VarOnly(var_block_offset, ecg_block_offset, var_block_size) ==
  var_block_offset = HeaderSize

\* Header.load_header, lines 80-81: the stored offsets agree with the layout
OffsetsOk(var_block_offset, ecg_block_offset, var_block_size) ==
  var_block_offset = HeaderSize /\ ecg_block_offset = HeaderSize + var_block_size

\* var_block_size, the two offsets, nleads and sr are locals of load_header:
\* the Header object does not keep them
Locals(f) ==
  [f EXCEPT !.var_block_size = 0, !.var_block_offset = 0, !.ecg_block_offset = 0,
            !.nleads = 0, !.sr = 0]

\* Header.load_header
load_header(d) ==
  IF ~d.exists THEN Result("FileNotFoundError", NoObject)
  ELSE IF TooSmall(Len(d.bytes)) THEN Result("FileNotFoundError", NoObject)
  ELSE LET f == ReadFixed(d.bytes, TRUE)
       IN IF ~OffsetsOk(f.var_block_offset, f.ecg_block_offset, f.var_block_size)
          THEN Result("ValueError", NoObject)
          ELSE IF f.var_block_size > 0 /\ ~CanRead(d.bytes, HeaderSize, f.var_block_size)
          THEN Result("IndexError", NoObject)
          ELSE Result("none",
                 [NoObject EXCEPT !.made = TRUE, !.trip = d.trip,
                    !.h = [Locals(f) EXCEPT !.var_block =
                             IF f.var_block_size > 0
                             THEN ReadVarBlock(d.bytes, f.var_block_size, TRUE)
                             ELSE None]])

\* Header(filename=...)
HeaderLoad ==
  /\ lib = "header"
  /\ LET r == load_header(disk)
     IN /\ obj' = r.obj
        /\ err' = r.err
  /\ op' = Call("load", FALSE)
  /\ ret' = NoReturn
  /\ prev' = disk
  /\ UNCHANGED <<lib, disk, orig>>

\* header_field_defaults: the fields of Header() (the strings are '', the
\* dates None)
header_field_defaults ==
  [NoHeader EXCEPT !.file_version = -9, !.sex = 0, !.race = 0, !.pm = -9,
                   !.birth_date = None, !.record_date = None,
                   !.file_date = None, !.start_time = None]

\* Header(**kwargs), lines 38-44: the defaults, or every field given (the
\* strings as bytes)
KeywordKinds == {"default", "bytes"}

header_from_kwargs(kind) ==
  IF kind = "default" THEN header_field_defaults
  ELSE LET q == Patient(TRUE)
       IN [header_field_defaults EXCEPT
             !.file_version = q.file_version, !.first_name = q.first_name,
             !.last_name = q.last_name, !.id = q.id, !.sex = q.sex, !.race = q.race,
             !.birth_date = q.birth_date, !.record_date = q.record_date,
             !.file_date = q.file_date, !.start_time = q.start_time, !.pm = q.pm,
             !.recorder_type = q.recorder_type, !.proprietary = q.proprietary,
             !.copyright = q.copyright, !.reserved = q.reserved,
             !.var_block = FixtureVarBlock(MaxVarBlock)]

\* Header(...) without a filename
HeaderNew ==
  /\ lib = "header"
  /\ \E kind \in KeywordKinds :
       obj' = [NoObject EXCEPT !.made = TRUE, !.h = header_from_kwargs(kind),
                               !.origin = kind]
  /\ err' = "none"
  /\ op' = Call("new", FALSE)
  /\ ret' = NoReturn
  /\ prev' = disk
  /\ UNCHANGED <<lib, disk, orig>>

\* (the start times of the leads not compared)
Consistent_NoStart(leads) ==
  /\ Cardinality({leads[i].sr : i \in 1..Len(leads)}) = 1
  /\ Cardinality({Len(leads[i].data) : i \in 1..Len(leads)}) = 1

\* get_header_bytes, lines 104-106: one sample rate, one start time, one
\* number of samples (an empty list has none)
Consistent(leads) ==
  /\ Cardinality({leads[i].sr : i \in 1..Len(leads)}) = 1
  /\ Cardinality({leads[i].start : i \in 1..Len(leads)}) = 1
  /\ Cardinality({Len(leads[i].data) : i \in 1..Len(leads)}) = 1

\* Header.get_header_bytes(leads).  Past the check of the leads it builds
\* the header up to the lead count, then reads l.name_TODO_TO_KEY (line
\* 150), which no Lead has: it raises whatever the header and the leads.
\* The strings of Header() are str, and ljust(40, b'\x00') refuses them.
get_header_bytes(o, leads) ==
  LET h    == o.h
      size == <<Unsigned(Len(h.var_block), 4), Unsigned(Len(leads[1].data), 4),
                Unsigned(HeaderSize, 4), Unsigned(HeaderSize + Len(h.var_block), 4),
                SignedInt(h.file_version, 2)>>
      rest == <<Unsigned(h.sex, 2), Unsigned(h.race, 2)>>
              \o DateWrites(h.birth_date) \o DateWrites(h.record_date)
              \o DateWrites(h.file_date) \o DateWrites(h.start_time)
              \o <<Unsigned(Len(leads), 2)>>
  IN IF ~Consistent(leads) THEN [err |-> "ValueError", b |-> <<>>]
     ELSE IF ~Written(size).ok THEN [err |-> "OverflowError", b |-> <<>>]
     ELSE IF o.origin = "default" THEN [err |-> "TypeError", b |-> <<>>]
     ELSE IF ~Written(rest).ok THEN [err |-> "OverflowError", b |-> <<>>]
     ELSE [err |-> "AttributeError", b |-> <<>>]

HeaderGetBytes ==
  /\ lib = "header"
  /\ obj.made
  /\ \E leads \in LeadLists :
       LET r == get_header_bytes(obj, leads)
       IN /\ err' = r.err
          /\ ret' = [NoReturn EXCEPT !.b = r.b]
          /\ op' = [Call("get_header_bytes", FALSE) EXCEPT !.leads = leads]
  /\ prev' = disk
  /\ UNCHANGED <<lib, disk, obj, orig>>

---------------------------------------------------------------------------
(* ishneholterlib/holter.py: its own class Header, and class Holter.       *)

\* holter.py's Header.load_header: no check of the offsets; lead_spec is
\* replaced by the names of its codes, a KeyError for a code without a name
holter_load_header(d) ==
  IF ~d.exists THEN Result("FileNotFoundError", NoObject)
  ELSE IF TooSmall(Len(d.bytes)) THEN Result("FileNotFoundError", NoObject)
  ELSE LET f == ReadFixed(d.bytes, TRUE)
       IN IF \E i \in 1..MaxLeads : f.lead_spec[i] \notin DOMAIN lead_specs
          THEN Result("KeyError", NoObject)
          ELSE IF f.var_block_size > 0 /\ ~CanRead(d.bytes, HeaderSize, f.var_block_size)
          THEN Result("IndexError", NoObject)
          ELSE Result("none",
                 [NoObject EXCEPT !.made = TRUE, !.trip = d.trip,
                    !.h = [f EXCEPT
                             !.lead_spec = [i \in 1..MaxLeads |-> lead_specs[f.lead_spec[i]]],
                             !.var_block =
                               IF f.var_block_size > 0
                               THEN ReadVarBlock(d.bytes, f.var_block_size, TRUE)
                               ELSE None]])

\* Holter.load_data: it opens the file, then reads self.ecg_block_offset,
\* an attribute the Holter object does not have (the Header has it)
holter_load_data(o, d) ==
  IF ~d.exists THEN Result("FileNotFoundError", o) ELSE Result("AttributeError", o)

\* Holter(filename, load_data=...): from the file if it exists, else an empty
\* Holter with a default Header (its fields are all None) and no leads
HolterInit ==
  /\ lib = "holter"
  /\ \E load_data \in BOOLEAN :
       LET hd == holter_load_header(disk)
           ld == holter_load_data(hd.obj, disk)
           r  == IF ~disk.exists
                 THEN Result("none", [NoObject EXCEPT !.made = TRUE, !.origin = "default",
                                        !.lead = [set |-> TRUE, v |-> <<>>]])
                 ELSE IF hd.err # "none" THEN hd
                 ELSE IF load_data THEN Result(ld.err, NoObject)
                 ELSE hd
       IN /\ obj' = r.obj
          /\ err' = r.err
          /\ op' = Call("load", load_data)
          /\ ret' = [NoReturn EXCEPT
                     !.out = IF disk.exists /\ r.err = "none"
                             THEN "Loaded header successfully."
                             ELSE ""]
  /\ prev' = disk
  /\ UNCHANGED <<lib, disk, orig>>

\* Holter.load_data(), called on an object
HolterLoadData ==
  /\ lib = "holter"
  /\ obj.made
  /\ LET r == holter_load_data(obj, disk)
     IN /\ obj' = r.obj
        /\ err' = r.err
  /\ op' = Call("load_data", FALSE)
  /\ ret' = NoReturn
  /\ prev' = disk
  /\ UNCHANGED <<lib, disk, orig>>

\* Holter(filename, leads=...) or Holter(filename, header=Header(filename),
\* leads=...): an object in memory, with a default Header (its fields are
\* all None) or with the Header of the file
HolterNew ==
  /\ lib = "holter"
  /\ \E leads \in LeadLists, with_header \in BOOLEAN :
       LET hd == holter_load_header(disk)
       IN /\ with_header => disk.exists
          /\ obj' = IF ~with_header
                    THEN [NoObject EXCEPT !.made = TRUE, !.origin = "default",
                                          !.lead = [set |-> TRUE, v |-> leads]]
                    ELSE IF hd.err # "none" THEN NoObject
                    ELSE [NoObject EXCEPT !.made = TRUE, !.h = hd.obj.h,
                                          !.lead = [set |-> TRUE, v |-> leads]]
          /\ err' = IF with_header THEN hd.err ELSE "none"
          /\ op' = [Call("new", with_header) EXCEPT !.leads = leads]
  /\ ret' = NoReturn
  /\ prev' = disk
  /\ UNCHANGED <<lib, disk, orig>>

\* holter.var_block = ..., by the caller: autofill_header reads the
\* attribute from the Holter object, and nothing in holter.py sets it there
HolterSetVarBlock ==
  /\ lib = "holter"
  /\ obj.made
  /\ ~obj.attr.var_block_set
  /\ \E vb \in {None, FixtureVarBlock(MaxVarBlock)} :
       obj' = [obj EXCEPT !.attr.var_block_set = TRUE, !.attr.var_block = vb]
  /\ err' = "none"
  /\ op' = Call("set_var_block", FALSE)
  /\ ret' = NoReturn
  /\ prev' = disk
  /\ UNCHANGED <<lib, disk, orig>>

\* holter.py's Header.get_header_bytes().  A Header() made without a file
\* has no var_block_size; for a header with leads, line 196 reads
\* self.lead, which a Header does not have.
holter_get_header_bytes(o) ==
  LET h     == o.h
      front == <<Unsigned(h.var_block_size, 4), Unsigned(h.ecg_size, 4),
                 Unsigned(h.var_block_offset, 4), Unsigned(h.ecg_block_offset, 4),
                 SignedInt(h.file_version, 2),
                 Bytes(Pad(h.first_name, 40)), Bytes(Pad(h.last_name, 40)),
                 Bytes(Pad(h.id, 20)), Unsigned(h.sex, 2), Unsigned(h.race, 2)>>
               \o DateWrites(h.birth_date) \o DateWrites(h.record_date)
               \o DateWrites(h.file_date) \o DateWrites(h.start_time)
               \o <<Unsigned(h.nleads, 2)>>
      back  == [i \in 1..(3 * MaxLeads) |-> SignedInt(-9, 2)]
               \o <<SignedInt(h.pm, 2), Bytes(Pad(h.recorder_type, 40)), Unsigned(h.sr, 2),
                    Bytes(Pad(h.proprietary, 80)), Bytes(Pad(h.copyright, 80)),
                    Bytes(Pad(h.reserved, 88))>>
               \o (IF h.var_block_size > 0 THEN <<Bytes(h.var_block)>> ELSE <<>>)
  IN IF o.origin = "default" THEN [err |-> "AttributeError", b |-> <<>>]
     ELSE IF ~Written(front).ok THEN [err |-> "OverflowError", b |-> <<>>]
     ELSE IF h.nleads > 0 THEN [err |-> "AttributeError", b |-> <<>>]
     ELSE IF ~Written(back).ok THEN [err |-> "OverflowError", b |-> <<>>]
     ELSE [err |-> "none", b |-> Written(front \o back).b]

\* holter.header.get_header_bytes()
HolterHeaderGetBytes ==
  /\ lib = "holter"
  /\ obj.made
  /\ LET r == holter_get_header_bytes(obj)
     IN /\ err' = r.err
        /\ ret' = [NoReturn EXCEPT !.b = r.b]
  /\ op' = Call("get_header_bytes", FALSE)
  /\ prev' = disk
  /\ UNCHANGED <<lib, disk, obj, orig>>

\* (the header of the object replaced by an empty one)
autofill_header_ResetsHeader(o) ==
  Result("none", [o EXCEPT !.h = NoHeader, !.attr.autofilled = "all"])

\* Holter.autofill_header: attr.autofilled says how far it got
\*   "magic" : magic_number is set, len(self.var_block) raised AttributeError
\*   "size"  : var_block_size is set too, self.lead[0] raised
\*   "all"   : every derived attribute is set
autofill_header(o) ==
  IF ~o.attr.var_block_set
  THEN Result("AttributeError", [o EXCEPT !.attr.autofilled = "magic"])
  ELSE LET sized == [o EXCEPT !.attr.autofilled = "size",
                              !.attr.var_block_size = Len(o.attr.var_block)]
       IN IF ~o.lead.set THEN Result("AttributeError", sized)
          ELSE IF o.lead.v = <<>> THEN Result("IndexError", sized)
          ELSE Result("none",
                 [sized EXCEPT !.attr.autofilled = "all",
                               !.attr.ecg_size = Len(o.lead.v[1].data),
                               !.attr.var_block_offset = HeaderSize,
                               !.attr.ecg_block_offset = HeaderSize + sized.attr.var_block_size,
                               !.attr.file_date = Today,
                               !.attr.nleads = Len(o.lead.v)])

HolterAutofill ==
  /\ lib = "holter"
  /\ obj.made
  /\ LET r == autofill_header(obj)
     IN /\ obj' = r.obj
        /\ err' = r.err
  /\ op' = Call("autofill_header", FALSE)
  /\ ret' = NoReturn
  /\ prev' = disk
  /\ UNCHANGED <<lib, disk, orig>>

\* Holter.write_file, lines 432-433: every lead has the same number of samples
SameCounts(leads) == Cardinality({Len(leads[i].data) : i \in 1..Len(leads)}) = 1

\* Holter.write_file.  After autofill_header it opens the file for
\* appending, which creates it, and calls self.get_header_bytes(): Holter
\* has no such method (Header has), so nothing is written.
holter_write_file(o, d, overwrite) ==
  IF ~o.lead.set THEN [err |-> "AttributeError", disk |-> d, obj |-> o]
  ELSE IF ~SameCounts(o.lead.v) THEN [err |-> "AssertionError", disk |-> d, obj |-> o]
  ELSE LET rm == remove_existing(d, overwrite)
           af == autofill_header(o)
       IN IF rm.err # "none" THEN [err |-> rm.err, disk |-> rm.disk, obj |-> o]
          ELSE IF af.err # "none" THEN [err |-> af.err, disk |-> rm.disk, obj |-> af.obj]
          ELSE [err |-> "AttributeError", disk |-> File(<<>>, 2), obj |-> af.obj]

HolterWriteFile ==
  /\ lib = "holter"
  /\ obj.made
  /\ \E overwrite \in BOOLEAN :
       LET r == holter_write_file(obj, disk, overwrite)
       IN /\ disk' = r.disk
          /\ obj' = r.obj
          /\ err' = r.err
          /\ op' = Call("write_file", overwrite)
  /\ ret' = NoReturn
  /\ prev' = disk
  /\ UNCHANGED <<lib, orig>>

---------------------------------------------------------------------------
(* ishneholterlib/helpers.py and constants.py: the functions that prepare  *)
(* values for writing, called on their own.  They keep no state, so a run  *)
(* of them is one call.                                                    *)

\* a dict, as the sequence of its items <<key, value>> in insertion order
Items(keys, d) == [i \in 1..Len(keys) |-> <<keys[i], d[keys[i]]>>]

lead_spec_codes == <<-9>> \o [i \in 1..20 |-> i - 1]

\* constants.py, lead_qualities
lead_qualities ==
  << <<-9, "absent">>, <<0, "unknown">>, <<1, "good">>,
     <<2, "intermittent noise">>, <<3, "frequent noise">>,
     <<4, "intermittent disconnect">>, <<5, "frequent disconnect">> >>

\* constants.py, pm_codes
pm_codes ==
  << <<0, "none">>, <<1, "unknown type">>, <<2, "single chamber unipolar">>,
     <<3, "dual chamber unipolar">>, <<4, "single chamber bipolar">>,
     <<5, "dual chamber bipolar">> >>

\* (the default returned for a value the dict does have)
val_to_key_AlwaysDefault(d, v, default_k) == default_k

\* val_to_key(d, v, default_k): the first key, in the order of the dict,
\* whose value is v
val_to_key(d, v, default_k) ==
  LET hits == {i \in 1..Len(d) : d[i][2] = v}
  IN IF hits # {}
     THEN d[CHOOSE i \in hits : \A j \in hits : i <= j][1]
     ELSE default_k

\* a dict of a caller in which two keys share a value
SharedValues == << <<1, "a">>, <<2, "b">>, <<3, "a">>, <<4, "b">> >>

Tables == {Items(lead_spec_codes, lead_specs), lead_qualities, pm_codes, SharedValues}

LookupValues ==
  {"absent", "unknown", "X", "V6", "AI", "good", "frequent disconnect",
   "none", "a", "b", "missing"}

HelperValToKey ==
  /\ lib = "helpers" /\ op.name = "start"
  /\ \E d \in Tables, v \in LookupValues, default_k \in {0, -9} :
       /\ op' = [Call("val_to_key", FALSE) EXCEPT !.input = <<d, v, default_k>>]
       /\ ret' = [NoReturn EXCEPT !.val = val_to_key(d, v, default_k)]
  /\ err' = "none"
  /\ prev' = disk
  /\ UNCHANGED <<lib, disk, obj, orig>>

\* get_datetime on a file that holds the triple a, b, c at the offset
HelperGetDatetime ==
  /\ lib = "helpers" /\ op.name = "start"
  /\ \E a \in {-32768, -1, 0, 1, 23, 24, 28, 29, 30, 31, 32},
        b \in {-1, 0, 1, 2, 4, 12, 13, 59, 60},
        c \in {-1, 0, 1, 59, 60, 1900, 2000, 2015, 2016, 9999, 10000, 32767},
        time \in BOOLEAN :
       /\ op' = [Call("get_datetime", time) EXCEPT !.input = <<a, b, c>>]
       /\ ret' = [NoReturn EXCEPT !.val = get_datetime(S16(a) \o S16(b) \o S16(c), 0, time)]
  /\ err' = "none"
  /\ prev' = disk
  /\ UNCHANGED <<lib, disk, obj, orig>>

\* bytes_from_datetime(dt); dt is a date, a time, None, or something else
\* (kind "other": a datetime.datetime, a string)
bytes_from_datetime(dt) ==
  IF dt.kind \in {"date", "time"}
  THEN Written(<<Unsigned(dt.v[1], 2), Unsigned(dt.v[2], 2), Unsigned(dt.v[3], 2)>>)
  ELSE IF dt.kind = "None" THEN Written(<<Unsigned(0, 6)>>)
  ELSE [ok |-> FALSE, b |-> <<>>]

DateTimes ==
  { [kind |-> "None", v |-> None], [kind |-> "other", v |-> <<5, 11, 2026>>],
    [kind |-> "date", v |-> <<29, 2, 2016>>], [kind |-> "date", v |-> <<1, 1, 1>>],
    [kind |-> "date", v |-> <<31, 12, 9999>>],
    [kind |-> "time", v |-> <<0, 0, 0>>], [kind |-> "time", v |-> <<23, 59, 59>>] }

HelperBytesFromDatetime ==
  /\ lib = "helpers" /\ op.name = "start"
  /\ \E dt \in DateTimes :
       LET r == bytes_from_datetime(dt)
       IN /\ op' = [Call("bytes_from_datetime", FALSE) EXCEPT !.input = dt]
          /\ ret' = [NoReturn EXCEPT !.b = r.b]
          /\ err' = IF r.ok THEN "none"
                    ELSE IF dt.kind = "other" THEN "TypeError" ELSE "OverflowError"
  /\ prev' = disk
  /\ UNCHANGED <<lib, disk, obj, orig>>

\* A Lead of ecgplotter, as helpers.py uses it: its name, notes['quality']
\* ("(none)" when the notes have no such key), original_umV when it is set
\* (units per mV), and its amplitudes .ampl, kept in nV (mV * 1e6).
NamedLead(name, quality, umV, ampl) ==
  [name |-> name, quality |-> quality, original_umV |-> umV, ampl |-> ampl]

NoUmV == [set |-> FALSE, v |-> 0]

UmV(v) == [set |-> TRUE, v |-> v]

Max(s) == CHOOSE x \in {s[i] : i \in 1..Len(s)} : \A i \in 1..Len(s) : s[i] <= x

Min(s) == CHOOSE x \in {s[i] : i \in 1..Len(s)} : \A i \in 1..Len(s) : x <= s[i]

\* math.ceil(n / d) for d > 0
CeilDiv(n, d) == 0 - ((0 - n) \div d)

\* int(1e6 / u): the quotient cut towards zero
IntDiv1e6(u) == IF u > 0 THEN 1000000 \div u ELSE 0 - (1000000 \div (0 - u))

\* lead_resolutions_nv, for one lead: int(1e6/original_umV), and when that
\* raises (no such attribute, or a division by zero) the range of the
\* amplitudes divided among 2**16 steps; max() of no amplitudes raises
\* ValueError
lead_resolution_nv(l) ==
  IF l.original_umV.set /\ l.original_umV.v # 0
  THEN [err |-> "none", res |-> IntDiv1e6(l.original_umV.v)]
  ELSE IF l.ampl = <<>> THEN [err |-> "ValueError", res |-> 0]
  ELSE [err |-> "none", res |-> CeilDiv(Max(l.ampl) - Min(l.ampl), 65536)]

lead_resolutions_nv(leads) ==
  LET rs == [i \in 1..Len(leads) |-> lead_resolution_nv(leads[i])]
  IN IF \E i \in 1..Len(leads) : rs[i].err # "none"
     THEN [err |-> "ValueError", res |-> <<>>]
     ELSE [err |-> "none", res |-> [i \in 1..Len(leads) |-> rs[i].res]]

\* the 12 - len(leads) entries of -9 after the entries of the leads; more
\* than 12 leads get none
Absent(leads) ==
  [i \in 1..(IF Len(leads) < MaxLeads THEN MaxLeads - Len(leads) ELSE 0) |-> SignedInt(-9, 2)]

EncodedArray(ws) ==
  IF Written(ws).ok THEN [err |-> "none", b |-> Written(ws).b]
  ELSE [err |-> "OverflowError", b |-> <<>>]

bytes_from_lead_names(leads) ==
  EncodedArray([i \in 1..Len(leads) |->
                  SignedInt(val_to_key(Items(lead_spec_codes, lead_specs), leads[i].name, 0), 2)]
               \o Absent(leads))

bytes_from_lead_qualities(leads) ==
  EncodedArray([i \in 1..Len(leads) |->
                  SignedInt(val_to_key(lead_qualities, leads[i].quality, 0), 2)]
               \o Absent(leads))

bytes_from_lead_resolutions(leads) ==
  LET r == lead_resolutions_nv(leads)
  IN IF r.err # "none" THEN [err |-> r.err, b |-> <<>>]
     ELSE EncodedArray([i \in 1..Len(leads) |-> SignedInt(r.res[i], 2)] \o Absent(leads))

\* leads with and without a measured resolution: a name outside the table,
\* no quality, a flat signal, a range wider than 2**16 steps of 32767 nV
SomeLeads ==
  { NamedLead("II", "good", UmV(400), <<-500000, 250000, 1000000>>),
    NamedLead("V1", "frequent noise", UmV(3), <<0, 2500>>),
    NamedLead("CM5", "(none)", NoUmV, <<-1000000, 0, 1000001>>),
    NamedLead("absent", "absent", NoUmV, <<250000, 250000>>),
    NamedLead("X", "unknown", UmV(0), <<0, 65536>>),
    NamedLead("Y", "good", UmV(1), <<0, 1>>),
    NamedLead("Z", "good", NoUmV, <<-1073741800, 0, 1073741823>>),
    NamedLead("aVR", "good", NoUmV, <<>>) }

\* one lead, two leads, and twelve or thirteen times the same lead
HelperLeadLists ==
  { <<l>> : l \in SomeLeads }
  \cup { <<l, m>> : l \in SomeLeads, m \in SomeLeads }
  \cup { [i \in 1..n |-> l] : n \in {MaxLeads, MaxLeads + 1}, l \in SomeLeads }

HelperLeadBytes ==
  /\ lib = "helpers" /\ op.name = "start"
  /\ \E leads \in HelperLeadLists,
        f \in {"bytes_from_lead_names", "bytes_from_lead_qualities",
               "bytes_from_lead_resolutions"} :
       LET r == CASE f = "bytes_from_lead_names" -> bytes_from_lead_names(leads)
                  [] f = "bytes_from_lead_qualities" -> bytes_from_lead_qualities(leads)
                  [] OTHER -> bytes_from_lead_resolutions(leads)
       IN /\ op' = [Call(f, FALSE) EXCEPT !.leads = leads]
          /\ ret' = [NoReturn EXCEPT !.b = r.b]
          /\ err' = r.err
  /\ prev' = disk
  /\ UNCHANGED <<lib, disk, obj, orig>>

---------------------------------------------------------------------------
(* A run: one library, and any file at self.filename.                      *)

Libs == {"legacy", "header", "holter", "helpers"}

\* holter.py reads no more of a file than its header, and nothing it writes
\* depends on the file: its runs start from the files of one configuration
StartFiles(l) ==
  {NoFile} \cup
  IF l = "helpers" THEN {}
  ELSE IF l = "holter"
  THEN { File(Fixture(Config(2, MaxPerLead, MaxVarBlock, TRUE), f), 0) : f \in LoadFaults }
  ELSE { File(Fixture(c, f), 0) : c \in Configs, f \in Faults }

Init ==
  /\ lib \in Libs
  /\ disk \in StartFiles(lib)
  /\ obj = NoObject
  /\ op = Call("start", FALSE)
  /\ err = "none"
  /\ ret = NoReturn
  /\ prev = disk
  /\ orig = disk

Next ==
  \/ LegacyInit
  \/ LegacyIsValid
  \/ LegacyGetLeadspec
  \/ LegacyLoadData
  \/ LegacyWriteFile
  \/ HeaderLoad
  \/ HeaderNew
  \/ HeaderGetBytes
  \/ HolterInit
  \/ HolterLoadData
  \/ HolterNew
  \/ HolterHeaderGetBytes
  \/ HolterSetVarBlock
  \/ HolterAutofill
  \/ HolterWriteFile
  \/ HelperValToKey
  \/ HelperGetDatetime
  \/ HelperBytesFromDatetime
  \/ HelperLeadBytes

Spec == Init /\ [][Next]_vars

---------------------------------------------------------------------------
(* The properties.  prev is the file the last operation found, disk the    *)
(* file it left.                                                           *)

\* the stored fields of a file, read straight from its bytes
StoredVarBlockSize(bs) == get_long_int(bs, 10)
StoredEcgSize(bs) == get_long_int(bs, 14)
StoredVarBlockOffset(bs) == get_long_int(bs, 18)
StoredEcgBlockOffset(bs) == get_long_int(bs, 22)
StoredChecksum(bs) == get_uint16(bs, 8)
StoredNLeads(bs) == get_short_int(bs, 156)

\* the errors a loader raises for the size of the file
SizeErrors == {"FileNotFoundError", "AssertionError"}

\* C1: loading a header from a file shorter than 522 bytes always raises an
\* error and yields no object (header.py, holter.py: FileNotFoundError;
\* ISHNEHolterLib.py: AssertionError); a file of 522 bytes or more is not
\* refused for its size.
C1_ShortFileRejected ==
  (op.name = "load" /\ prev.exists) =>
    /\ Len(prev.bytes) < 522 => (err \in SizeErrors /\ ~obj.made)
    /\ Len(prev.bytes) >= 522 => err \notin SizeErrors

C1_Witness ==
  /\ lib = "header" /\ op.name = "load" /\ prev.exists
  /\ Len(prev.bytes) = 521 /\ err = "FileNotFoundError" /\ ~obj.made

\* C2: loading a file whose first 8 bytes are not ISHNE1.0 raises an error,
\* and no object with a loaded header results.
C2_WrongMagicRejected ==
  (op.name = "load" /\ prev.exists /\ Len(prev.bytes) >= 522
     /\ Slice(prev.bytes, 0, 8) # MagicBytes)
  => (err # "none" /\ ~obj.made)

C4_SizeCheck ==
  (lib = "legacy" /\ op.name = "is_valid" /\ err = "none") =>
    LET h      == obj.h
        size   == Len(disk.bytes)
        sizes  == { 522 + h.var_block_size + 2 * h.ecg_size,
                    522 + h.var_block_size + 2 * h.ecg_size * h.nleads }
        others == /\ h.magic_number = MagicBytes
                  /\ h.var_block_offset = 522
                  /\ (op.arg => h.checksum = compute_checksum(h, disk.bytes))
    IN /\ size \notin sizes => ~ret.v
       /\ others => (ret.v <=> size \in sizes)
       /\ 6522 \in { s \in 6000..7000 :
                       SizeOk([var_block_size |-> 0, ecg_size |-> 1000, nleads |-> 3], s) }

C4_Witness ==
  /\ lib = "legacy" /\ op.name = "is_valid" /\ ret.v
  /\ obj.h.nleads = 2
  /\ Len(disk.bytes) = 522 + obj.h.var_block_size + 2 * obj.h.ecg_size * obj.h.nleads

\* C5: is_valid() returns true only if the magic is ISHNE1.0, the
\* variable-block offset is 522 and the ECG-block offset is
\* 522 + var_block_size, the size of the file fits one of the two
\* conventions, and the stored checksum is the computed one.
C5_ValidMeansAllChecks ==
  (lib = "legacy" /\ op.name = "is_valid" /\ op.arg /\ ret.v) =>
    LET h == obj.h
    IN /\ h.magic_number = MagicBytes
       /\ h.var_block_offset = 522
       /\ h.ecg_block_offset = 522 + h.var_block_size
       /\ Len(disk.bytes) \in { 522 + h.var_block_size + 2 * h.ecg_size,
                                522 + h.var_block_size + 2 * h.ecg_size * h.nleads }
       /\ h.checksum = compute_checksum(h, disk.bytes)

\* a file of the layout of the format, with 1 to 12 leads, whatever its
\* checksum
Structured(d) ==
  /\ d.exists
  /\ Len(d.bytes) >= 522
  /\ Slice(d.bytes, 0, 8) = MagicBytes
  /\ StoredVarBlockOffset(d.bytes) = 522
  /\ StoredEcgBlockOffset(d.bytes) = 522 + StoredVarBlockSize(d.bytes)
  /\ StoredNLeads(d.bytes) \in 1..12
  /\ Len(d.bytes) = 522 + StoredVarBlockSize(d.bytes)
                      + 2 * StoredEcgSize(d.bytes) * StoredNLeads(d.bytes)

\* C6: loading (with the default arguments) a file that is sound but for
\* its stored checksum, which differs from the CRC of its header, raises an
\* error and yields no object; the load does not return with at most a
\* printed warning.
C6_ChecksumMismatchRaises ==
  (op.name = "load" /\ ~op.arg /\ Structured(prev)
     /\ StoredChecksum(prev.bytes) #
          crc16(Slice(prev.bytes, 10, StoredEcgBlockOffset(prev.bytes) - 10)))
  => (err # "none" /\ ~obj.made)

\* C7: write_file with overwrite false, where a file exists, raises an
\* error and leaves the file as it was.
C7_NoOverwriteRefused ==
  (op.name = "write_file" /\ ~op.arg /\ prev.exists) => (err # "none" /\ disk = prev)

C7_Witness ==
  /\ lib = "legacy" /\ op.name = "write_file" /\ ~op.arg /\ prev.exists
  /\ err = "AssertionError" /\ disk = prev

\* C8: when write_file (holter.py) fails, the destination is left exactly
\* as it was: not removed, not partly written, also with overwrite true
\* and a file there.
C8_FailedSaveLeavesFile ==
  (lib = "holter" /\ op.name = "write_file" /\ err # "none") => disk = prev

\* C9: a write_file that returns has written the magic, the checksum, the
\* header and the data block in this order with nothing between them; the
\* checksum at offset 8 is the CRC16-CCITT of the bytes from offset 10 to
\* the ECG-block offset, where the samples of every lead follow.
C9_SavedLayout ==
  (op.name = "write_file" /\ err = "none") =>
    LET b == disk.bytes
        samples == IF obj.data.kind = "matrix"
                   THEN Len(obj.data.v) * Len(obj.data.v[1])
                   ELSE IF obj.lead.set /\ obj.lead.v # <<>>
                   THEN Len(obj.lead.v) * Len(obj.lead.v[1].data)
                   ELSE 0
    IN /\ disk.exists
       /\ Slice(b, 0, 8) = MagicBytes
       /\ StoredVarBlockOffset(b) = 522
       /\ StoredEcgBlockOffset(b) = 522 + StoredVarBlockSize(b)
       /\ StoredChecksum(b) = crc16(Slice(b, 10, StoredEcgBlockOffset(b) - 10))
       /\ Len(b) = StoredEcgBlockOffset(b) + 2 * samples

\* a file every check accepts
WellFormed(d) ==
  /\ Structured(d)
  /\ StoredChecksum(d.bytes) = crc16(Slice(d.bytes, 10, 512 + StoredVarBlockSize(d.bytes)))

\* the object holds the samples of its leads
HasData(o) == o.data.kind = "matrix" \/ (o.lead.set /\ o.lead.v # <<>>)

\* the header fields of a file but the derived ones (checksum, file_date)
Identity(h) ==
  [h EXCEPT !.checksum = 0, !.file_date = None]

\* the amplitudes (in nV) of the leads of a file: sample k of lead i is raw
\* sample (k - 1) * nleads + i of the block at the ECG-block offset
LeadsOf(bs) ==
  LET raw == RawSamples(bs, StoredEcgBlockOffset(bs))
      n   == StoredNLeads(bs)
  IN [i \in 1..n |-> [k \in 1..(Len(raw) \div n) |->
        raw[(k - 1) * n + i] * get_short_int(bs, 206 + (i - 1) * 2)]]

\* C10: for a well-formed file F: loading F with its data succeeds, saving
\* the loaded object succeeds, loading the saved file with its data
\* succeeds, and the object then holds the header fields of F (file_date
\* and checksum aside) and the samples of every lead of F.
C10_RoundTrip ==
  WellFormed(orig) =>
    /\ (op.name \in {"load", "load_data"} /\ prev.trip \in {0, 1}
          /\ (lib = "holter" => op.arg))
       => (err = "none" /\ (lib = "holter" \/ op.name = "load_data" => HasData(obj)))
    /\ (op.name = "write_file" /\ op.arg /\ obj.trip = 0 /\ HasData(obj))
       => (err = "none" /\ disk.trip = 1)
    /\ (obj.made /\ obj.trip = 1 /\ HasData(obj))
       => /\ Identity(obj.h) =
               Identity([ReadFixed(orig.bytes, lib # "legacy") EXCEPT !.var_block = obj.h.var_block])
          /\ obj.h.var_block = ReadVarBlock(orig.bytes, StoredVarBlockSize(orig.bytes), lib # "legacy")
          /\ obj.data.v = LeadsOf(orig.bytes)

\* the fields of a header that a user sets
UserFields(h) ==
  [file_version |-> h.file_version, first_name |-> h.first_name,
   last_name |-> h.last_name, id |-> h.id, sex |-> h.sex, race |-> h.race,
   birth_date |-> h.birth_date, record_date |-> h.record_date,
   start_time |-> h.start_time, pm |-> h.pm, recorder_type |-> h.recorder_type,
   proprietary |-> h.proprietary, copyright |-> h.copyright, reserved |-> h.reserved]

\* the leads of a list share one sample rate, one start and one sample count
Shared(leads) ==
  /\ leads # <<>>
  /\ \A i, j \in 1..Len(leads) :
       /\ leads[i].sr = leads[j].sr
       /\ leads[i].start = leads[j].start
       /\ Len(leads[i].data) = Len(leads[j].data)

\* C11: get_header_bytes (header.py), given leads that agree, returns bytes
\* from which load_header (behind the magic and the checksum) reads back
\* every field of the header: file version, names and id, sex, race, the
\* dates and the start time, pacemaker code, recorder type, the
\* proprietary, copyright and reserved strings, and the variable block.
C11_EncodeDecode ==
  (lib = "header" /\ op.name = "get_header_bytes" /\ Shared(op.leads)) =>
    /\ err = "none"
    /\ LET back == load_header(File(MagicBytes \o LE(crc16(ret.b), 2) \o ret.b, 2))
       IN /\ back.err = "none"
          /\ UserFields(back.obj.h) = UserFields(obj.h)
          /\ back.obj.h.file_date = obj.h.file_date
          /\ back.obj.h.var_block = obj.h.var_block

\* C15: get_header_bytes (header.py) returns bytes only for leads that share
\* one sample rate, one start and one sample count; for leads that differ
\* in any of the three, and for an empty list, it raises ValueError and
\* returns nothing.  (write_file of holter.py refuses leads of unequal
\* sample counts, with an AssertionError, before it touches the file.)
C15_InconsistentLeadsRefused ==
  /\ (lib = "header" /\ op.name = "get_header_bytes") =>
       /\ ~Shared(op.leads) => (err = "ValueError" /\ ret.b = <<>>)
       /\ err = "none" => Shared(op.leads)
  /\ (lib = "holter" /\ op.name = "write_file" /\ obj.lead.set
        /\ \E i, j \in 1..Len(obj.lead.v) :
             Len(obj.lead.v[i].data) # Len(obj.lead.v[j].data))
     => (err = "AssertionError" /\ disk = prev)

C15_Witness ==
  /\ lib = "header" /\ op.name = "get_header_bytes" /\ err = "ValueError"
  /\ Len(op.leads) = 2
  /\ op.leads[1].sr = op.leads[2].sr
  /\ Len(op.leads[1].data) = Len(op.leads[2].data)
  /\ op.leads[1].start # op.leads[2].start

\* objects o and p do not hold the same samples (self.data, or the list
\* self.lead)
OtherSamples(o, p) ==
  \/ o.data.kind # p.data.kind
  \/ o.data.kind = p.data.kind /\ o.data.v # p.data.v
  \/ o.lead # p.lead

NoSamples(o) == o.data.kind = "None" /\ o.lead.v = <<>>

\* C12: samples are read only on request and only after the header.  A
\* load that does not ask for data gives an object with its header and no
\* samples; an object comes to hold samples it did not hold only by
\* load_data on an object whose header is loaded, by a load that asks for
\* data, or by a constructor that is given the leads.
C12_LazyData ==
  [][ /\ (op'.name = "load" /\ ~op'.arg /\ err' = "none")
           => (obj'.made /\ NoSamples(obj'))
      /\ (OtherSamples(obj', obj) /\ ~NoSamples(obj'))
           => \/ op'.name = "load_data" /\ obj.made /\ obj'.h = obj.h
              \/ op'.name = "load" /\ op'.arg
              \/ op'.name = "new" ]_vars

C12_Witness ==
  /\ lib = "legacy" /\ op.name = "load" /\ err = "none" /\ obj.made
  /\ Len(prev.bytes) > 522 + StoredVarBlockSize(prev.bytes)
  /\ obj.data.kind = "None"

\* the leads the samples of file bs decode to, with the header h: the
\* block at the ECG-block offset of h, nleads rows, row i scaled by
\* ampl_res[i] (amplitudes in nV)
Decoded(bs, h) ==
  LET raw == RawSamples(bs, h.ecg_block_offset)
      n   == h.nleads
  IN [i \in 1..n |-> [k \in 1..(Len(raw) \div n) |->
        raw[(k - 1) * n + i] * h.ampl_res[i]]]

\* the sample sequences an object holds, lead by lead
Held(o) ==
  IF lib = "holter" THEN [i \in 1..Len(o.lead.v) |-> o.lead.v[i].data] ELSE o.data.v

\* C13: load_data, on an object whose header has 1 to 12 leads and the
\* ECG-block offset 522 + var_block_size, reads the samples from that
\* offset and leaves the object with exactly nleads leads, lead i scaled by
\* ampl_res[i], whatever it held before (so a second call changes nothing).
C13_LoadDataFromEcgOffset ==
  (op.name = "load_data" /\ obj.made /\ prev.exists
     /\ obj.h.nleads \in 1..12
     /\ obj.h.ecg_block_offset = 522 + obj.h.var_block_size
     /\ \A i \in 1..obj.h.nleads : obj.h.ampl_res[i] > 0)
  => /\ err = "none"
     /\ lib = "legacy" => obj.data.kind = "matrix"
     /\ Len(Held(obj)) = obj.h.nleads
     /\ Held(obj) = Decoded(prev.bytes, obj.h)

\* the raw samples load_data finds in file bs for object o: the int16
\* values from the offset it seeks to, to the end of the file
RawRead(o, bs) ==
  RawSamples(bs, IF lib = "legacy" THEN o.h.var_block_offset ELSE o.h.ecg_block_offset)

\* C19: load_data, finding N raw samples for a header of nleads leads (1 to
\* 12), raises nothing and gives every lead exactly N div nleads samples,
\* sample k (from 0) of lead i (from 0) being raw sample k * nleads + i
\* scaled by the resolution of the lead; the last N mod nleads raw samples
\* are dropped.
C19_Deinterleave ==
  (op.name = "load_data" /\ obj.made /\ prev.exists /\ obj.h.nleads \in 1..12) =>
    LET raw == RawRead(obj, prev.bytes)
        n   == obj.h.nleads
    IN /\ err = "none"
       /\ Len(Held(obj)) = n
       /\ \A i \in 1..n :
            /\ Len(Held(obj)[i]) = Len(raw) \div n
            /\ \A k \in 1..(Len(raw) \div n) :
                 Held(obj)[i][k] = raw[(k - 1) * n + i] * obj.h.ampl_res[i]

\* Exact fractions <<numerator, denominator>>, in lowest terms with a
\* positive denominator.
Abs(x) == IF x < 0 THEN 0 - x ELSE x

RECURSIVE Gcd(_, _)
Gcd(a, b) == IF b = 0 THEN a ELSE Gcd(b, a % b)

Rat(n, d) ==
  LET g == Gcd(Abs(n), Abs(d))
  IN IF d < 0 THEN <<(0 - n) \div g, (0 - d) \div g>> ELSE <<n \div g, d \div g>>

\* the product, cancelling across before multiplying
RatMul(a, b) ==
  LET g1 == Gcd(Abs(a[1]), b[2])
      g2 == Gcd(Abs(b[1]), a[2])
  IN IF a[1] = 0 \/ b[1] = 0 THEN <<0, 1>>
     ELSE <<(a[1] \div g1) * (b[1] \div g2), (a[2] \div g2) * (b[2] \div g1)>>

\* round(): the nearest integer, a tie going to the even one
Round(q) ==
  LET f    == q[1] \div q[2]
      twice == 2 * (q[1] - f * q[2])
  IN IF twice < q[2] THEN f
     ELSE IF twice > q[2] THEN f + 1
     ELSE IF f % 2 = 0 THEN f ELSE f + 1

\* an amplitude of the model (nV) as a value in mV
MilliVolts(nv) == Rat(nv, 1000000)

\* the raw samples behind the rows of self.data after a load_data
RawRows(o, bs) ==
  LET raw == RawRead(o, bs)
  IN Rows(raw, o.h.nleads, Len(raw) \div o.h.nleads)

C16_OffsetsInvariant ==
  /\ (op.name = "load" /\ err = "none" /\ obj.made /\ prev.exists
        /\ ret.out # "Warning: file appears to be invalid or corrupt.") =>
       OffsetsOk(StoredVarBlockOffset(prev.bytes), StoredEcgBlockOffset(prev.bytes),
                 StoredVarBlockSize(prev.bytes))
  /\ (op.name = "get_header_bytes" /\ err = "none") =>
       OffsetsOk(get_long_int(ret.b, 8), get_long_int(ret.b, 12), get_long_int(ret.b, 0))
  /\ (op.name = "write_file" /\ err = "none") =>
       OffsetsOk(StoredVarBlockOffset(disk.bytes), StoredEcgBlockOffset(disk.bytes),
                 StoredVarBlockSize(disk.bytes))
  /\ (op.name = "autofill_header" /\ err = "none") =>
       OffsetsOk(obj.attr.var_block_offset, obj.attr.ecg_block_offset,
                 obj.attr.var_block_size)

\* C17: autofill_header, on a Holter holding at least one lead, gives the
\* header ecg_size = the sample count of the first lead, var_block_size =
\* the length of the variable block (0 without one), nleads = the number of
\* leads held and file_date = today; and the header write_file puts in the
\* file carries these values.
C17_AutofillValues ==
  /\ (lib = "holter" /\ op.name = "autofill_header" /\ obj.made
        /\ obj.lead.set /\ obj.lead.v # <<>>) =>
       /\ err = "none"
       /\ obj.h.nleads = Len(obj.lead.v)
       /\ obj.h.ecg_size = Len(obj.lead.v[1].data)
       /\ obj.h.var_block_size = Len(obj.h.var_block)
       /\ obj.h.file_date = Today
  /\ (lib = "holter" /\ op.name = "write_file" /\ obj.made /\ obj.lead.set
        /\ SameCounts(obj.lead.v) /\ (prev.exists => op.arg)) =>
       /\ err = "none"
       /\ disk.exists
       /\ StoredNLeads(disk.bytes) = Len(obj.lead.v)
       /\ StoredEcgSize(disk.bytes) = Len(obj.lead.v[1].data)
       /\ StoredVarBlockSize(disk.bytes) = Len(obj.h.var_block)
       /\ get_datetime(disk.bytes, 144, FALSE) = Today

\* C18: autofill_header, whether it returns or raises, leaves the fields a
\* user sets (names, id, sex, race, birth and record dates, start time,
\* pacemaker code, recorder type, proprietary, copyright and reserved
\* strings) and the leads with their samples as they were.
C18_AutofillFrame ==
  [][ (lib = "holter" /\ op'.name = "autofill_header") =>
        /\ UserFields(obj'.h) = UserFields(obj.h)
        /\ obj'.lead = obj.lead
        /\ obj'.data = obj.data ]_vars

C18_Witness ==
  /\ lib = "holter" /\ op.name = "autofill_header" /\ err = "none"
  /\ obj.attr.autofilled = "all"
  /\ obj.h.first_name # <<>> /\ obj.h.id # <<>>
  /\ Len(obj.lead.v) = 2 /\ obj.lead.v[1].data # <<>>
  /\ obj.attr.nleads = 2

\* C20: get_header_bytes, for a header and 1 to 12 leads that agree, returns
\* exactly 512 + len(var_block) bytes, every string cut to the width of its
\* field (40, 40, 20, 40, 80, 80, 88) and padded with null bytes, so that
\* the fields after a string stay where they are.
C20_HeaderLength ==
  ((op.name = "get_header_bytes" /\ obj.made)
     /\ \/ lib = "header" /\ Shared(op.leads) /\ Len(op.leads) \in 1..12
        \/ lib = "holter" /\ obj.origin = "file" /\ obj.h.nleads \in 1..12) =>
    /\ err = "none"
    /\ Len(ret.b) = 512 + Len(obj.h.var_block)
    /\ Slice(ret.b, 18, 40) = Pad(obj.h.first_name, 40)
    /\ Slice(ret.b, 58, 40) = Pad(obj.h.last_name, 40)
    /\ Slice(ret.b, 98, 20) = Pad(obj.h.id, 20)
    /\ Slice(ret.b, 222, 40) = Pad(obj.h.recorder_type, 40)
    /\ Slice(ret.b, 264, 80) = Pad(obj.h.proprietary, 80)
    /\ Slice(ret.b, 344, 80) = Pad(obj.h.copyright, 80)
    /\ Slice(ret.b, 424, 88) = Pad(obj.h.reserved, 88)

\* the code of a name in lead_specs, 0 for a name the table does not have
SpecCode(name) ==
  IF \E k \in DOMAIN lead_specs : lead_specs[k] = name
  THEN CHOOSE k \in DOMAIN lead_specs : lead_specs[k] = name
  ELSE 0

\* the code of a quality in lead_qualities, 0 for one the table does not have
QualCode(q) ==
  IF \E i \in 1..Len(lead_qualities) : lead_qualities[i][2] = q
  THEN lead_qualities[CHOOSE i \in 1..Len(lead_qualities) : lead_qualities[i][2] = q][1]
  ELSE 0

\* entry i (from 1) of an array of 16-bit values starting at byte ptr of bs
Entry(bs, ptr, i) == get_short_int(bs, ptr + 2 * (i - 1))

\* C21: for 1 to 12 leads each of the three lead arrays is encoded, with
\* exactly 12 entries: entry i of the first n is the position code, the
\* quality code or the resolution of lead i, and every later entry is -9.
\* This for bytes_from_lead_names / _qualities / _resolutions (the last
\* when every resolution can be computed and fits 16 bits) and for the
\* arrays inside the bytes of get_header_bytes (header.py).
C21_LeadArrays ==
  /\ (lib = "helpers" /\ op.name = "bytes_from_lead_names" /\ Len(op.leads) \in 1..12) =>
       /\ err = "none" /\ Len(ret.b) = 24
       /\ \A i \in 1..12 :
            Entry(ret.b, 0, i) = IF i <= Len(op.leads) THEN SpecCode(op.leads[i].name) ELSE -9
  /\ (lib = "helpers" /\ op.name = "bytes_from_lead_qualities" /\ Len(op.leads) \in 1..12) =>
       /\ err = "none" /\ Len(ret.b) = 24
       /\ \A i \in 1..12 :
            Entry(ret.b, 0, i) = IF i <= Len(op.leads) THEN QualCode(op.leads[i].quality) ELSE -9
  /\ (lib = "helpers" /\ op.name = "bytes_from_lead_resolutions" /\ Len(op.leads) \in 1..12
        /\ err = "none") =>
       /\ Len(ret.b) = 24
       /\ \A i \in 1..12 :
            Entry(ret.b, 0, i) = IF i <= Len(op.leads) THEN lead_resolution_nv(op.leads[i]).res
                                 ELSE -9
  /\ (lib = "header" /\ op.name = "get_header_bytes" /\ obj.made
        /\ Shared(op.leads) /\ Len(op.leads) \in 1..12) =>
       /\ err = "none"
       /\ Len(ret.b) = 512 + Len(obj.h.var_block)
       /\ \A i \in (Len(op.leads) + 1)..12 :
            /\ Entry(ret.b, 148, i) = -9
            /\ Entry(ret.b, 172, i) = -9
            /\ Entry(ret.b, 196, i) = -9

\* day d of month m of year y is a date of the calendar (years 1 to 9999)
CalendarDate(d, m, y) ==
  /\ y \in 1..9999 /\ m \in 1..12 /\ d >= 1
  /\ \/ d <= 28
     \/ d <= 30 /\ m # 2
     \/ d = 31 /\ m \in {1, 3, 5, 7, 8, 10, 12}
     \/ d = 29 /\ m = 2 /\ y % 4 = 0 /\ (y % 100 # 0 \/ y % 400 = 0)

TimeOfDay(h, m, s) == h \in 0..23 /\ m \in 0..59 /\ s \in 0..59

\* what the three 16-bit values at byte ptr of bs stand for
DateAt(bs, ptr) ==
  LET t == <<Entry(bs, ptr, 1), Entry(bs, ptr, 2), Entry(bs, ptr, 3)>>
  IN IF CalendarDate(t[1], t[2], t[3]) THEN t ELSE None

TimeAt(bs, ptr) ==
  LET t == <<Entry(bs, ptr, 1), Entry(bs, ptr, 2), Entry(bs, ptr, 3)>>
  IN IF TimeOfDay(t[1], t[2], t[3]) THEN t ELSE None

\* C22: get_datetime raises nothing for any three signed 16-bit values: it
\* gives the date (day, month, year) or the time (hour, minute, second) when
\* the three values are a date of the calendar or a time of day, and None
\* otherwise; so for the four date/time fields of every header loaded.
C22_DateTimeDecoding ==
  /\ (op.name = "get_datetime") =>
       /\ err = "none"
       /\ ret.val = IF op.arg
                    THEN (IF TimeOfDay(op.input[1], op.input[2], op.input[3])
                          THEN op.input ELSE None)
                    ELSE (IF CalendarDate(op.input[1], op.input[2], op.input[3])
                          THEN op.input ELSE None)
  /\ (op.name = "load" /\ err = "none" /\ obj.made /\ prev.exists) =>
       /\ obj.h.birth_date = DateAt(prev.bytes, 132)
       /\ obj.h.record_date = DateAt(prev.bytes, 138)
       /\ obj.h.file_date = DateAt(prev.bytes, 144)
       /\ obj.h.start_time = TimeAt(prev.bytes, 150)

C22_Witness ==
  /\ op.name = "get_datetime" /\ ~op.arg /\ err = "none"
  /\ op.input = <<29, 2, 1900>>
  /\ ret.val = None

\* C23: None is encoded as six zero bytes, and six zero bytes decode to
\* None, for a date and for a time, and so for each of birth_date,
\* record_date, file_date and start_time of a header loaded.
C23_NoneAsZeros ==
  /\ (op.name = "bytes_from_datetime" /\ op.input.kind = "None") =>
       (err = "none" /\ ret.b = Zeros(6))
  /\ (op.name = "get_datetime" /\ op.input = <<0, 0, 0>>) => ret.val = None
  /\ (op.name = "load" /\ err = "none" /\ obj.made /\ prev.exists
        /\ ret.out # "Warning: file appears to be invalid or corrupt.") =>
       /\ Slice(prev.bytes, 132, 6) = Zeros(6) => obj.h.birth_date = None
       /\ Slice(prev.bytes, 138, 6) = Zeros(6) => obj.h.record_date = None
       /\ Slice(prev.bytes, 144, 6) = Zeros(6) => obj.h.file_date = None
       /\ Slice(prev.bytes, 150, 6) = Zeros(6) => obj.h.start_time = None

\* C24: in every resolution array encoded, the entry of each lead given is
\* strictly positive and at most 32767; for a lead without original_umV it
\* is ceil(1e6 * (max - min of the amplitudes in mV) / 65536).
C24_PositiveResolution ==
  (op.name = "bytes_from_lead_resolutions" /\ err = "none") =>
    \A i \in 1..Len(op.leads) :
      /\ Entry(ret.b, 0, i) > 0
      /\ Entry(ret.b, 0, i) <= 32767
      /\ ~op.leads[i].original_umV.set =>
           Entry(ret.b, 0, i) = CeilDiv(Max(op.leads[i].ampl) - Min(op.leads[i].ampl), 65536)

\* C25: val_to_key(d, v, default_k) returns a key of d whose value is v when
\* d has the value v, and default_k when it has not; for lead_specs and
\* lead_qualities, val_to_key(d, d[k], default_k) = k for every key k.
C25_ReverseLookup ==
  /\ (op.name = "val_to_key") =>
       LET d == op.input[1]
           v == op.input[2]
       IN IF \E i \in 1..Len(d) : d[i][2] = v
          THEN \E i \in 1..Len(d) : d[i][1] = ret.val /\ d[i][2] = v
          ELSE ret.val = op.input[3]
  /\ \A d \in {Items(lead_spec_codes, lead_specs), lead_qualities} :
       \A i \in 1..Len(d) : \A default_k \in {0, -9, 99} :
         val_to_key(d, d[i][2], default_k) = d[i][1]

C25_Witness ==
  /\ op.name = "val_to_key"
  /\ op.input[1] = Items(lead_spec_codes, lead_specs)
  /\ op.input[2] = "V6" /\ op.input[3] = 0
  /\ ret.val = 16

\* the codes of the lead-position array of file bs that lead_specs has no
\* name for
Unmapped(bs) == {i \in 1..12 : Entry(bs, 158, i) \notin DOMAIN lead_specs}

\* C26: a header whose lead-position array holds a code outside the table
\* (the file being well formed otherwise) is loaded without an error, its
\* other fields decoded; and asking for the name of such a lead gives a
\* name (a fallback), not an error.
C26_UnknownLeadCode ==
  /\ (op.name = "load" /\ WellFormed(prev) /\ Unmapped(prev.bytes) # {}) =>
       /\ err \notin {"KeyError"}
       /\ (~op.arg) => /\ err = "none" /\ obj.made
                       /\ obj.h.first_name = Str(prev.bytes, 28, 40, lib # "legacy")
                       /\ obj.h.pm = get_short_int(prev.bytes, 230)
  /\ (op.name = "get_leadspec") => (err = "none" /\ ret.val # "")

\* C27: a file written by a write_file that raised nothing passes
\* is_valid, checksum included: magic ISHNE1.0, offsets 522 and 522 +
\* var_block_size, size 522 + var_block_size + 2 * ecg_size * nleads with
\* ecg_size the samples of one lead, and a stored checksum equal to the one
\* computed from the file.
C27_SavedFileValid ==
  (op.name = "write_file" /\ err = "none") =>
    LET h == ReadFixed(disk.bytes, lib # "legacy")
    IN /\ disk.exists
       /\ Len(disk.bytes) >= 522
       /\ is_valid(h, disk.bytes, TRUE)
       /\ MagicOk(h)
       /\ OffsetsOk(h.var_block_offset, h.ecg_block_offset, h.var_block_size)
       /\ Len(disk.bytes) = ExpectedPerLead(h.var_block_size, h.ecg_size, h.nleads)
       /\ h.checksum = compute_checksum(h, disk.bytes)

=============================================================================
